---- MODULE Spec2Model ----
(***************************************************************************)
(* Anchor resolution engine of the collaborative editor (src/server.js):   *)
(* the text normalizer, the anchor resolver, the cross-paragraph remapper  *)
(* and the validation loop of POST /api/revise.                            *)
(*                                                                         *)
(* A JavaScript string is modelled as a sequence of UTF-16 code units      *)
(* (integers), 1-based as TLA+ sequences are; offsets kept by the code     *)
(* (spans, comment ranges, indexOf results) stay 0-based as in the code.   *)
(***************************************************************************)
EXTENDS Integers, Sequences, FiniteSets, TLC

(***************************************************************************)
(* Characters                                                              *)
(***************************************************************************)
Apostrophe == 39
DoubleQuote == 34
Hyphen == 45
Space == 32
Nbsp == 160
EmDash == 8212

\* The characters /\s/ matches (and String.prototype.trim strips).
WhitespaceChars ==
    {9, 10, 11, 12, 13, 32, 160, 5760, 8232, 8233, 8239, 8287, 12288, 65279}
        \cup (8192 .. 8202)

IsWhitespace(ch) == ch \in WhitespaceChars

\* A mapping whose image of the typographic apostrophes is the backtick,
\* itself a mapped character.
normalizeLooseChar_Chained(ch) ==
    IF ch \in {8216, 8217, 180} THEN 96
    ELSE IF ch = 96 THEN Apostrophe
    ELSE IF ch \in {8220, 8221} THEN DoubleQuote
    ELSE IF ch \in {8211, 8212, 8722} THEN Hyphen
    ELSE IF ch = Nbsp THEN Space
    ELSE ch

normalizeLooseChar(ch) ==
    IF ch \in {8216, 8217, 96, 180} THEN Apostrophe
    ELSE IF ch \in {8220, 8221} THEN DoubleQuote
    ELSE IF ch \in {8211, 8212, 8722} THEN Hyphen
    ELSE IF ch = Nbsp THEN Space
    ELSE ch

(***************************************************************************)
(* String primitives of the JavaScript runtime, on code-unit sequences     *)
(***************************************************************************)
\* s.slice(start, end) for 0 <= start, end <= s.length (empty when inverted).
Slice(s, start, end) == IF end > start THEN SubSeq(s, start + 1, end) ELSE <<>>

\* s.indexOf(t): the least 0-based offset where t occurs in s, or -1.
IndexOf(s, t) ==
    LET hits == {k \in 0 .. (Len(s) - Len(t)) : Slice(s, k, k + Len(t)) = t}
    IN  IF hits = {} THEN -1
        ELSE CHOOSE k \in hits : \A m \in hits : k <= m

\* s.includes(t)
Includes(s, t) == IndexOf(s, t) # -1

RECURSIVE TrimStart(_)
TrimStart(s) ==
    IF Len(s) > 0 /\ IsWhitespace(s[1]) THEN TrimStart(Tail(s)) ELSE s

RECURSIVE TrimEnd(_)
TrimEnd(s) ==
    IF Len(s) > 0 /\ IsWhitespace(s[Len(s)])
    THEN TrimEnd(SubSeq(s, 1, Len(s) - 1))
    ELSE s

\* s.trim()
Trim(s) == TrimEnd(TrimStart(s))

(***************************************************************************)
(* Text normalizer                                                         *)
(***************************************************************************)
\* The inner while loop: from offset i, the first offset whose mapped
\* character is not whitespace (or text.length).
RECURSIVE RunEnd(_, _)
RunEnd(text, i) ==
    IF i < Len(text) /\ IsWhitespace(normalizeLooseChar(text[i + 1]))
    THEN RunEnd(text, i + 1)
    ELSE i

\* A span that covers only the first character of a whitespace run.
RunSpan_FirstCharOnly(runStart, runEnd) == [start |-> runStart, end |-> runStart + 1]

\* The span pushed for a collapsed whitespace run.
RunSpan(runStart, runEnd) == [start |-> runStart, end |-> runEnd]

\* The outer while loop, from offset i with the output built so far.
RECURSIVE LooseLoop(_, _, _, _)
LooseLoop(text, i, out, spans) ==
    IF i >= Len(text) THEN [text |-> out, spans |-> spans]
    ELSE LET ch == normalizeLooseChar(text[i + 1]) IN
         IF IsWhitespace(ch)
         THEN LET j == RunEnd(text, i + 1) IN
              IF Len(out) = 0 \/ out[Len(out)] # Space
              THEN LooseLoop(text, j, Append(out, Space),
                             Append(spans, RunSpan(i, j)))
              ELSE LooseLoop(text, j, out, spans)
         ELSE LooseLoop(text, i + 1, Append(out, ch),
                        Append(spans, [start |-> i, end |-> i + 1]))

buildLooseTextWithSpans(text) == LooseLoop(text, 0, <<>>, <<>>)

(***************************************************************************)
(* Anchor resolver                                                         *)
(*                                                                         *)
(* A result is null or a string: [found |-> FALSE] stands for null.  No    *)
(* path returns the empty string, so the callers' truthiness tests         *)
(* (!resolved, a || b) are tests of found.                                 *)
(*                                                                         *)
(* A comment is [isNull, paraIndex, hasRange, start, end, hasSelectedText, *)
(* selectedText]: isNull is a null record of the comments array, hasRange  *)
(* is Number.isInteger(c.start) && Number.isInteger(c.end), and            *)
(* hasSelectedText is typeof c.selectedText === "string".                  *)
(*                                                                         *)
(* An undefined paragraph text or proposed text is passed as the empty     *)
(* string: lines 89, 90 and 94 treat the two alike.                        *)
(***************************************************************************)
Null == [found |-> FALSE, text |-> <<>>]
Some(t) == [found |-> TRUE, text |-> t]

\* a || b, and "return a if it succeeded, else go on to b"
OrElse(a, b) == IF a.found THEN a ELSE b

\* Line 90: the proposal is a non-empty literal substring.
ExactMatch(paraText, proposedOldText) ==
    Len(proposedOldText) > 0 /\ Includes(paraText, proposedOldText)

\* A back-mapping that ends at the first matched character's span.
LooseSliceOf_StartSpanEnd(paraText, spans, looseIdx, looseLen) ==
    LET startSpan == spans[looseIdx + 1]
    IN  Some(Slice(paraText, startSpan.start, startSpan.end))

\* Lines 101-105: project the loose match back through the spans.
LooseSliceOf(paraText, spans, looseIdx, looseLen) ==
    LET startSpan == spans[looseIdx + 1]
        endSpan == spans[looseIdx + looseLen]
    IN  IF endSpan.end > startSpan.start
        THEN Some(Slice(paraText, startSpan.start, endSpan.end))
        ELSE Null

\* Lines 99-106: the first occurrence of the trimmed loose proposal in the
\* paragraph's loose text, if any, projected back.
LooseMatchAt(paraText, spans, looseIdx, looseLen) ==
    IF looseIdx = -1 THEN Null
    ELSE LooseSliceOf(paraText, spans, looseIdx, looseLen)

LooseMatchIn(paraText, paraLoose, oldLoose) ==
    IF Len(oldLoose) = 0 THEN Null
    ELSE LooseMatchAt(paraText, paraLoose.spans,
                      IndexOf(paraLoose.text, oldLoose), Len(oldLoose))

\* The loose step returning the model's own spelling.
LooseMatch_EchoProposal(paraText, proposedOldText) ==
    IF Len(proposedOldText) = 0 THEN Null
    ELSE IF LooseMatchIn(paraText, buildLooseTextWithSpans(paraText),
                         Trim(buildLooseTextWithSpans(proposedOldText).text)).found
    THEN Some(proposedOldText)
    ELSE Null

\* Lines 94-108: loose substring with span back-mapping.
LooseMatch(paraText, proposedOldText) ==
    IF Len(proposedOldText) = 0 THEN Null
    ELSE LooseMatchIn(paraText, buildLooseTextWithSpans(paraText),
                      Trim(buildLooseTextWithSpans(proposedOldText).text))

\* Lines 114-120: the lone comment carries a valid character range.
RangeValid(c, paraText) ==
    /\ ~c.isNull
    /\ c.hasRange
    /\ c.start >= 0
    /\ c.end > c.start
    /\ c.end <= Len(paraText)

\* Line 125: the lone comment's selectedText is a literal substring.
SelectedTextValid(c, paraText) ==
    /\ ~c.isNull
    /\ c.hasSelectedText
    /\ Len(c.selectedText) > 0
    /\ Includes(paraText, c.selectedText)

\* An anchor that prefers the comment's selectedText to its range.
CommentAnchor_SelectedTextFirst(paraText, paraComments) ==
    IF Len(paraComments) # 1 THEN Null
    ELSE LET c == paraComments[1] IN
         IF SelectedTextValid(c, paraText) THEN Some(c.selectedText)
         ELSE IF RangeValid(c, paraText) /\ Len(Slice(paraText, c.start, c.end)) > 0
         THEN Some(Slice(paraText, c.start, c.end))
         ELSE Null

\* An anchor taken from the first comment however many there are.
CommentAnchor_AnyCount(paraText, paraComments) ==
    IF Len(paraComments) = 0 THEN Null
    ELSE LET c == paraComments[1] IN
         IF RangeValid(c, paraText) /\ Len(Slice(paraText, c.start, c.end)) > 0
         THEN Some(Slice(paraText, c.start, c.end))
         ELSE IF SelectedTextValid(c, paraText) THEN Some(c.selectedText)
         ELSE Null

\* Lines 110-128: the single-comment positional and selected-text anchors.
CommentAnchor(paraText, paraComments) ==
    IF Len(paraComments) # 1 THEN Null
    ELSE LET c == paraComments[1] IN
         IF RangeValid(c, paraText) /\ Len(Slice(paraText, c.start, c.end)) > 0
         THEN Some(Slice(paraText, c.start, c.end))
         ELSE IF SelectedTextValid(c, paraText) THEN Some(c.selectedText)
         ELSE Null

\* A resolver that tries the single-comment anchor before the text.
resolveOldTextFromParagraph_AnchorFirst(paraText, proposedOldText, paraComments) ==
    IF Len(paraText) = 0 THEN Null
    ELSE OrElse(CommentAnchor(paraText, paraComments),
                IF ExactMatch(paraText, proposedOldText) THEN Some(proposedOldText)
                ELSE LooseMatch(paraText, proposedOldText))

\* Lines 88-131
resolveOldTextFromParagraph(paraText, proposedOldText, paraComments) ==
    IF Len(paraText) = 0 THEN Null
    ELSE IF ExactMatch(paraText, proposedOldText) THEN Some(proposedOldText)
    ELSE OrElse(LooseMatch(paraText, proposedOldText),
                CommentAnchor(paraText, paraComments))

(***************************************************************************)
(* State                                                                   *)
(***************************************************************************)
VARIABLES
    \* buildLooseTextWithSpans under test: its argument and its results.
    normText,           \* the string handed to the normalizer
    normRuns,           \* the results so far: of normText, then of that result's text
    \* resolveOldTextFromParagraph under test: its arguments and its result.
    resPara,            \* paraText
    resOld,             \* proposedOldText
    resComments,        \* paraComments
    resRuns,            \* <<>> before the call, <<result>> after it
    \* One POST /api/revise request.
    validIndices,       \* the sent indices, in the order the Set yields them
    paragraphLookup,    \* index -> text, its domain is validIndices
    comments,           \* req.body.comments
    changes,            \* the elements of the parsed response the loop has read
    pos,                \* how many of them it has finished with
    validChanges,       \* the edits accepted so far
    repairedCount,
    remappedCount,
    droppedCount,
    dropStats,
    remapLog,           \* the "Remapped change" lines written to the console
    response            \* what the handler has answered

normVars == <<normText, normRuns>>
resVars == <<resPara, resOld, resComments, resRuns>>
reviseVars == <<validIndices, paragraphLookup, comments, changes, pos, validChanges,
                repairedCount, remappedCount, droppedCount, dropStats,
                remapLog, response>>
vars == <<normVars, resVars, reviseVars>>

\* All strings over chars of length at most n.
StringsUpTo(chars, n) == UNION {[1 .. k -> chars] : k \in 0 .. n}

NoDropStats ==
    [invalidShape |-> 0, invalidIndex |-> 0, missingParagraph |-> 0,
     unresolvedOldText |-> 0]

\* The variables of a part of the program that is not running.
NormIdle == normText = <<>> /\ normRuns = <<>>
ResIdle == resPara = <<>> /\ resOld = <<>> /\ resComments = <<>> /\ resRuns = <<>>
ReviseIdle ==
    /\ validIndices = <<>>
    /\ paragraphLookup = <<>>
    /\ comments = <<>>
    /\ changes = <<>>
    /\ pos = 0
    /\ validChanges = <<>>
    /\ repairedCount = 0
    /\ remappedCount = 0
    /\ droppedCount = 0
    /\ dropStats = NoDropStats
    /\ remapLog = <<>>
    /\ response = "idle"

(***************************************************************************)
(* The normalizer applied to a string, and again to its own loose text     *)
(***************************************************************************)
MaxNormLen == 4

\* a, hyphen, em dash, right single quote, left double quote, space,
\* non-breaking space, tab
NormChars == {97, Hyphen, EmDash, 8217, 8220, Space, Nbsp, 9}

NormInit ==
    /\ normText \in StringsUpTo(NormChars, MaxNormLen)
    /\ normRuns = <<>>
    /\ ResIdle
    /\ ReviseIdle

\* normalize(text)
Normalize ==
    /\ normRuns = <<>>
    /\ normRuns' = <<buildLooseTextWithSpans(normText)>>
    /\ UNCHANGED <<normText, resVars, reviseVars>>

\* normalize(normalize(text).text)
NormalizeAgain ==
    /\ Len(normRuns) = 1
    /\ normRuns' = Append(normRuns, buildLooseTextWithSpans(normRuns[1].text))
    /\ UNCHANGED <<normText, resVars, reviseVars>>

NormNext == Normalize \/ NormalizeAgain

SpecNorm == NormInit /\ [][NormNext]_vars

(***************************************************************************)
(* The anchor resolver applied to one paragraph                            *)
(***************************************************************************)
MaxParaLen == 4
MaxOldLen == 3

\* a, em dash, space
ParaChars == {97, EmDash, Space}
\* a, hyphen, space
OldChars == {97, Hyphen, Space}

NoComment ==
    [isNull |-> FALSE, paraIndex |-> 0, hasRange |-> FALSE, start |-> 0,
     end |-> 0, hasSelectedText |-> FALSE, selectedText |-> <<>>]
RangeComment(p, s, e) == [NoComment EXCEPT !.paraIndex = p, !.hasRange = TRUE,
                                           !.start = s, !.end = e]
SelComment(p, t) == [NoComment EXCEPT !.paraIndex = p, !.hasSelectedText = TRUE,
                                      !.selectedText = t]
NullComment == [NoComment EXCEPT !.isNull = TRUE]

\* The comment lists a paragraph is resolved with: none, one comment (a
\* range that may be valid, inverted or past the end, a selectedText, both,
\* or neither), and two comments.
ResCommentLists ==
    {<<>>}
    \cup {<<RangeComment(0, r[1], r[2])>> : r \in {<<0, 1>>, <<1, 3>>, <<2, 1>>, <<1, 5>>}}
    \cup {<<SelComment(0, t)>> : t \in {<<97>>, <<EmDash, 97>>}}
    \cup {<<[RangeComment(0, r[1], r[2]) EXCEPT !.hasSelectedText = TRUE,
                                                !.selectedText = <<97>>]>> :
             r \in {<<1, 3>>, <<2, 1>>}}
    \cup {<<NoComment>>}
    \cup {<<RangeComment(0, 0, 1), RangeComment(0, 1, 3)>>}

\* The paragraphs "The quick brown fox", "He said <ldquo>hello<mdash>world<rdquo>"
\* and "the cat<nbsp> sat" with the proposals made against them.
TheQuickBrownFox ==
    <<84, 104, 101, 32, 113, 117, 105, 99, 107, 32, 98, 114, 111, 119, 110, 32,
      102, 111, 120>>
CompletelyUnrelatedText ==
    <<99, 111, 109, 112, 108, 101, 116, 101, 108, 121, 32, 117, 110, 114, 101,
      108, 97, 116, 101, 100, 32, 116, 101, 120, 116>>
HeSaidHelloWorld ==
    <<72, 101, 32, 115, 97, 105, 100, 32, 8220, 104, 101, 108, 108, 111, 8212,
      119, 111, 114, 108, 100, 8221>>
HelloHyphenWorld == <<104, 101, 108, 108, 111, 45, 119, 111, 114, 108, 100>>
HelloDashWorld == <<104, 101, 108, 108, 111, 8212, 119, 111, 114, 108, 100>>
TheCatNbspSat == <<116, 104, 101, 32, 99, 97, 116, 160, 32, 115, 97, 116>>
TheCatSat == <<116, 104, 101, 32, 99, 97, 116, 32, 115, 97, 116>>

ResExamples ==
    {[para |-> TheQuickBrownFox, old |-> CompletelyUnrelatedText,
      comments |-> <<RangeComment(0, 5, 10)>>],
     [para |-> HeSaidHelloWorld, old |-> HelloHyphenWorld, comments |-> <<>>],
     [para |-> TheCatNbspSat, old |-> TheCatSat, comments |-> <<>>]}

ResInit ==
    /\ \/ /\ resPara \in StringsUpTo(ParaChars, MaxParaLen)
          /\ resOld \in StringsUpTo(OldChars, MaxOldLen)
          /\ resComments \in ResCommentLists
       \/ \E x \in ResExamples :
             resPara = x.para /\ resOld = x.old /\ resComments = x.comments
    /\ resRuns = <<>>
    /\ NormIdle
    /\ ReviseIdle

\* resolve(paragraphText, proposedOldText, paragraphComments)
Resolve ==
    /\ resRuns = <<>>
    /\ resRuns' = <<resolveOldTextFromParagraph(resPara, resOld, resComments)>>
    /\ UNCHANGED <<resPara, resOld, resComments, normVars, reviseVars>>

ResNext == Resolve

SpecResolve == ResInit /\ [][ResNext]_vars

(***************************************************************************)
(* Cross-paragraph remapper                                                *)
(*                                                                         *)
(* validIndices is the sequence of the Set's elements in iteration order,  *)
(* which is insertion order.  paragraphLookup is a function from them to   *)
(* texts; the request builds both from the same list.                      *)
(***************************************************************************)
NoIndex == [found |-> FALSE, idx |-> 0]
SomeIndex(i) == [found |-> TRUE, idx |-> i]

\* paragraphLookup.get(idx): undefined (passed on as the empty string) for
\* an index that was not sent.
LookupText(lookup, idx) == IF idx \in DOMAIN lookup THEN lookup[idx] ELSE <<>>

\* validIndices.has(idx)
Has(valid, idx) == \E k \in 1 .. Len(valid) : valid[k] = idx

\* Lines 305 and 323: new Set(indices) keeps the first occurrence of each
\* index, in the order of the list; seen is the Set built so far.
RECURSIVE AddAll(_, _)
AddAll(indices, seen) ==
    IF Len(indices) = 0 THEN seen
    ELSE AddAll(Tail(indices),
                IF Has(seen, Head(indices)) THEN seen
                ELSE Append(seen, Head(indices)))

\* [...new Set(indices)]
IndexOrder(indices) == AddAll(indices, <<>>)

\* Lines 144-149: the scan from position k of the order, with the matches
\* found so far.
RECURSIVE ScanExact(_, _, _, _, _)
ScanExact(lookup, order, text, k, matches) ==
    IF k > Len(order)
    THEN IF Len(matches) = 1 THEN SomeIndex(matches[1]) ELSE NoIndex
    ELSE LET idx == order[k]
             m == IF Includes(lookup[idx], text) THEN Append(matches, idx)
                  ELSE matches
         IN  IF Len(m) > 1 THEN NoIndex
             ELSE ScanExact(lookup, order, text, k + 1, m)

\* A search that settles for the first paragraph holding the text.
findUniqueParagraphByExactText_FirstMatch(lookup, valid, text) ==
    IF Len(text) = 0 THEN NoIndex
    ELSE LET hits == {k \in 1 .. Len(valid) :
                         Includes(lookup[valid[k]], text)}
         IN  IF hits = {} THEN NoIndex
             ELSE SomeIndex(valid[CHOOSE k \in hits : \A j \in hits : k <= j])

findUniqueParagraphByExactText(lookup, valid, text) ==
    IF Len(text) = 0 THEN NoIndex
    ELSE ScanExact(lookup, valid, text, 1, <<>>)

\* Lines 158-165: the same scan on loose forms, empty paragraphs skipped.
RECURSIVE ScanLoose(_, _, _, _, _)
ScanLoose(lookup, order, target, k, matches) ==
    IF k > Len(order)
    THEN IF Len(matches) = 1 THEN SomeIndex(matches[1]) ELSE NoIndex
    ELSE LET idx == order[k] IN
         IF Len(lookup[idx]) = 0
         THEN ScanLoose(lookup, order, target, k + 1, matches)
         ELSE LET m == IF Includes(buildLooseTextWithSpans(lookup[idx]).text, target)
                       THEN Append(matches, idx)
                       ELSE matches
              IN  IF Len(m) > 1 THEN NoIndex
                  ELSE ScanLoose(lookup, order, target, k + 1, m)

findUniqueParagraphByLooseText(lookup, valid, text) ==
    IF Len(Trim(text)) = 0 THEN NoIndex
    ELSE LET target == Trim(buildLooseTextWithSpans(text).text)
         IN  IF Len(target) = 0 THEN NoIndex
             ELSE ScanLoose(lookup, valid, target, 1, <<>>)

\* Lines 295-301: commentsByPara.get(p) || [], the non-null comments of
\* paragraph p in the order given.
CommentsOfPara(allComments, p) ==
    SelectSeq(allComments, LAMBDA c : ~c.isNull /\ c.paraIndex = p)

\* What remapUnresolvedChange does: throws, returns null, or returns
\* {paraIndex, oldText, reason}.
NoRemap == [kind |-> "null", paraIndex |-> 0, oldText |-> <<>>, reason |-> ""]
RemapThrows == [kind |-> "throw", paraIndex |-> 0, oldText |-> <<>>, reason |-> ""]
RemapTo(p, t, why) == [kind |-> "remap", paraIndex |-> p, oldText |-> t, reason |-> why]
RemapFound(p, resolved, why) ==
    IF resolved.found THEN RemapTo(p, resolved.text, why) ELSE NoRemap

\* Lines 195-199 and 203-207: resolve against the paragraph a search found.
RemapAt(found, oldText, lookup, allComments, why) ==
    IF ~found.found THEN NoRemap
    ELSE RemapFound(found.idx,
                    resolveOldTextFromParagraph(
                        LookupText(lookup, found.idx), oldText,
                        CommentsOfPara(allComments, found.idx)),
                    why)

\* a || b on remap results
RemapOrElse(a, b) == IF a.kind = "remap" THEN a ELSE b

\* The two searches tried in the other order.
RemapBySearch_LooseFirst(oldText, lookup, valid, allComments) ==
    RemapOrElse(
        RemapAt(findUniqueParagraphByLooseText(lookup, valid, oldText),
                oldText, lookup, allComments, "unique-loose"),
        RemapAt(findUniqueParagraphByExactText(lookup, valid, oldText),
                oldText, lookup, allComments, "unique-exact"))

\* Lines 193-209: the unique exact search, then the unique loose search.
RemapBySearch(oldText, lookup, valid, allComments) ==
    RemapOrElse(
        RemapAt(findUniqueParagraphByExactText(lookup, valid, oldText),
                oldText, lookup, allComments, "unique-exact"),
        RemapAt(findUniqueParagraphByLooseText(lookup, valid, oldText),
                oldText, lookup, allComments, "unique-loose"))

\* Lines 173-190: the lone comment's anchor.  commentsByPara.get(
\* anchor.paraIndex) || [anchor] is <<anchor>>: the request holds no other
\* comment.
RemapByAnchor(anchor, oldText, lookup) ==
    RemapFound(anchor.paraIndex,
               OrElse(resolveOldTextFromParagraph(
                          LookupText(lookup, anchor.paraIndex), oldText, <<anchor>>),
                      resolveOldTextFromParagraph(
                          LookupText(lookup, anchor.paraIndex),
                          IF anchor.hasSelectedText THEN anchor.selectedText ELSE <<>>,
                          <<anchor>>)),
               "single-comment-anchor")

\* Lines 168-210.  With exactly one comment in the request its anchor comes
\* first; a null comment makes anchor.paraIndex (line 174) throw a TypeError.
remapUnresolvedChange(oldText, lookup, valid, allComments) ==
    IF Len(allComments) = 1 /\ allComments[1].isNull THEN RemapThrows
    ELSE RemapOrElse(
             IF Len(allComments) = 1
             THEN RemapByAnchor(allComments[1], oldText, lookup)
             ELSE NoRemap,
             RemapBySearch(oldText, lookup, valid, allComments))

(***************************************************************************)
(* Validation loop of POST /api/revise                                     *)
(*                                                                         *)
(* A change is [wellFormed, paraIndex, oldText, newText]: wellFormed is    *)
(* the shape test of lines 452-456 (a null element, a missing or           *)
(* mistyped field make it FALSE).                                          *)
(***************************************************************************)
\* An index test that lets every number through.
IndexIsValid_Always(c, valid) == TRUE

\* Line 461: validIndices.has(c.paraIndex)
IndexIsValid(c, valid) == Has(valid, c.paraIndex)

Dropped(why) ==
    [kind |-> why, paraIndex |-> 0, oldText |-> <<>>, remapped |-> FALSE,
     reason |-> ""]
Accepted(p, t, isRemap, why) ==
    [kind |-> "accepted", paraIndex |-> p, oldText |-> t, remapped |-> isRemap,
     reason |-> why]

\* Lines 480-506: the outcome once the remapper has answered.
AfterRemap(remapped, valid) ==
    IF remapped.kind = "throw" THEN Dropped("throw")
    ELSE IF remapped.kind = "remap" /\ Has(valid, remapped.paraIndex)
    THEN Accepted(remapped.paraIndex, remapped.oldText, TRUE, remapped.reason)
    ELSE Dropped("unresolvedOldText")

\* Lines 475-506: the outcome once the resolver has answered for the stated
\* paragraph.
AfterResolve(resolved, c, lookup, valid, allComments) ==
    IF resolved.found THEN Accepted(c.paraIndex, resolved.text, FALSE, "")
    ELSE AfterRemap(remapUnresolvedChange(c.oldText, lookup, valid,
                                          allComments),
                    valid)

\* Lines 452-506: what one iteration of the loop decides for change c.
Outcome(c, lookup, valid, allComments) ==
    IF ~c.wellFormed THEN Dropped("invalidShape")
    ELSE IF ~IndexIsValid(c, valid) THEN Dropped("invalidIndex")
    ELSE IF Len(LookupText(lookup, c.paraIndex)) = 0 THEN Dropped("missingParagraph")
    ELSE AfterResolve(
             resolveOldTextFromParagraph(LookupText(lookup, c.paraIndex), c.oldText,
                                         CommentsOfPara(allComments, c.paraIndex)),
             c, lookup, valid, allComments)

MaxChanges == 2
MaxComments == 2
NumParagraphs == 3

\* "", "a", "<mdash>", "a<mdash>"
DocTexts == {<<>>, <<97>>, <<EmDash>>, <<97, EmDash>>}

\* The index lists of a request: paragraphs.map((_, i) => i) in full mode,
\* paragraphMap.map(p => p.index) in focused mode, which names indices of
\* the document in any order and may repeat one.
IndexLists ==
    UNION {[1 .. k -> 0 .. NumParagraphs - 1] : k \in 1 .. NumParagraphs}

\* Lines 306 and 324: a Map from the sent indices to their texts (of a
\* repeated index the Map keeps the last text).
Lookups(order) == [{order[k] : k \in 1 .. Len(order)} -> DocTexts]

\* A null record, a comment on the first character of paragraph 0, a comment
\* on the second character of paragraph 1 (its range is past the end of a
\* one-character paragraph), a comment on paragraph 1 with a selectedText "a"
\* and no range.
RequestComments ==
    {NullComment, RangeComment(0, 0, 1), RangeComment(1, 1, 2), SelComment(1, <<97>>),
     SelComment(0, <<Hyphen>>)}

CommentLists == UNION {[1 .. k -> RequestComments] : k \in 0 .. MaxComments}

\* "", "a", "-", "a-" proposed for any paragraph of the document, and a
\* malformed record.
WellFormedChanges ==
    [wellFormed : {TRUE}, paraIndex : 0 .. NumParagraphs - 1,
     oldText : {<<>>, <<97>>, <<Hyphen>>, <<97, Hyphen>>}, newText : {<<120>>}]
MalformedChange ==
    [wellFormed |-> FALSE, paraIndex |-> 0, oldText |-> <<>>, newText |-> <<>>]
ChangeRecords == WellFormedChanges \cup {MalformedChange}

\* The request has passed the checks of lines 275-285 and built
\* validIndices, paragraphLookup and commentsByPara.  The elements of the
\* model's parsed response are drawn one by one as the loop reads them.
Init ==
    /\ \E indices \in IndexLists : validIndices = IndexOrder(indices)
    /\ paragraphLookup \in Lookups(validIndices)
    /\ comments \in CommentLists
    /\ changes = <<>>
    /\ pos = 0
    /\ validChanges = <<>>
    /\ repairedCount = 0
    /\ remappedCount = 0
    /\ droppedCount = 0
    /\ dropStats = NoDropStats
    /\ remapLog = <<>>
    /\ response = "validating"
    /\ NormIdle
    /\ ResIdle

\* Lines 457-513: the effect of one iteration that decided o for change c.
ApplyOutcome(c, o) ==
    IF o.kind = "throw"
    THEN \* the TypeError reaches the catch of line 530
         /\ response' = "error"
         /\ UNCHANGED <<pos, validChanges, repairedCount, remappedCount,
                        droppedCount, dropStats, remapLog>>
    ELSE /\ pos' = pos + 1
         /\ response' = response
         /\ IF o.kind = "accepted"
            THEN /\ validChanges' =
                        Append(validChanges,
                               [paraIndex |-> o.paraIndex, oldText |-> o.oldText,
                                newText |-> c.newText])
                 /\ remappedCount' = remappedCount + (IF o.remapped THEN 1 ELSE 0)
                 /\ repairedCount' =
                        repairedCount + (IF o.oldText # c.oldText THEN 1 ELSE 0)
                 /\ remapLog' =
                        IF o.remapped
                        THEN Append(remapLog, [from |-> c.paraIndex,
                                               to |-> o.paraIndex,
                                               reason |-> o.reason])
                        ELSE remapLog
                 /\ UNCHANGED <<droppedCount, dropStats>>
            ELSE /\ dropStats' = [dropStats EXCEPT ![o.kind] = @ + 1]
                 /\ droppedCount' = droppedCount + 1
                 /\ UNCHANGED <<validChanges, repairedCount, remappedCount,
                                remapLog>>

\* One iteration of the loop of line 451 on the next element c of the
\* parsed response.
ValidateChange(c) ==
    /\ response = "validating"
    /\ pos < MaxChanges
    /\ changes' = Append(changes, c)
    /\ ApplyOutcome(c, Outcome(c, paragraphLookup, validIndices, comments))
    /\ UNCHANGED <<validIndices, paragraphLookup, comments, normVars, resVars>>

\* Line 529: the loop is over, res.json({changes: validChanges}).
Respond ==
    /\ response = "validating"
    /\ pos = Len(changes)
    /\ response' = "sent"
    /\ UNCHANGED <<validIndices, paragraphLookup, comments, changes, pos,
                   validChanges, repairedCount, remappedCount, droppedCount,
                   dropStats, remapLog, normVars, resVars>>

Next ==
    \/ \E c \in ChangeRecords : ValidateChange(c)
    \/ Respond

Spec == Init /\ [][Next]_vars

(***************************************************************************)
(* Properties of the normalizer and of the resolver                        *)
(***************************************************************************)
\* t occurs in s as a contiguous run of characters.
Occurs(s, t) == \E k \in 0 .. (Len(s) - Len(t)) : Slice(s, k, k + Len(t)) = t

\* The least offset at which t occurs in s.
FirstOccurrence(s, t) ==
    CHOOSE k \in 0 .. (Len(s) - Len(t)) :
        /\ Slice(s, k, k + Len(t)) = t
        /\ \A m \in 0 .. (k - 1) : Slice(s, m, m + Len(t)) # t

\* The trimmed loose form of a proposal.
LooseTarget(t) == Trim(buildLooseTextWithSpans(t).text)

\* The proposal matches the paragraph loosely.
MatchesLoosely(para, old) ==
    /\ Len(old) > 0
    /\ Len(LooseTarget(old)) > 0
    /\ Occurs(buildLooseTextWithSpans(para).text, LooseTarget(old))

\* The paragraph's comment list holds exactly one comment, with a valid range.
OneCommentWithValidRange(para, cs) ==
    /\ Len(cs) = 1
    /\ ~cs[1].isNull
    /\ cs[1].hasRange
    /\ 0 <= cs[1].start
    /\ cs[1].start < cs[1].end
    /\ cs[1].end <= Len(para)

QuickExample ==
    /\ resPara = TheQuickBrownFox
    /\ resOld = CompletelyUnrelatedText
    /\ resComments = <<RangeComment(0, 5, 10)>>

\* C4 (amended): when the paragraph's comment list holds exactly one comment
\* with a valid range and the proposed oldText matches the paragraph neither
\* exactly nor loosely, the resolver returns paragraphText.slice(start, end);
\* for "The quick brown fox", start=5, end=10 and "completely unrelated text"
\* that slice is "uick " (offsets 5 to 9), not "quick".
C4_SingleCommentOverride ==
    resRuns # <<>> =>
        /\ ( /\ OneCommentWithValidRange(resPara, resComments)
             /\ ~(Len(resOld) > 0 /\ Occurs(resPara, resOld))
             /\ ~MatchesLoosely(resPara, resOld) )
           => resRuns[1] = Some(Slice(resPara, resComments[1].start,
                                      resComments[1].end))
        /\ QuickExample => resRuns[1] = Some(<<117, 105, 99, 107, 32>>)

\* C4 as stated: the same, the example's result being "quick".
C4_AsStated ==
    resRuns # <<>> =>
        /\ ( /\ OneCommentWithValidRange(resPara, resComments)
             /\ ~(Len(resOld) > 0 /\ Occurs(resPara, resOld))
             /\ ~MatchesLoosely(resPara, resOld) )
           => resRuns[1] = Some(Slice(resPara, resComments[1].start,
                                      resComments[1].end))
        /\ QuickExample => resRuns[1] = Some(<<113, 117, 105, 99, 107>>)

\* The example of C4 has been resolved, by the comment's range.
C4_Witness ==
    /\ QuickExample
    /\ resRuns # <<>>
    /\ resRuns[1].found
    /\ ~Occurs(resPara, resOld)
    /\ ~MatchesLoosely(resPara, resOld)

\* C5: when the proposed oldText is non-empty, is not a literal substring of
\* the paragraph, and its trimmed loose form is a non-empty substring of the
\* paragraph's loose form, the resolver returns the slice of the paragraph
\* from the start of the span of the first matched loose character to the
\* end of the span of the last one, for the first occurrence; the result is
\* a literal substring of the paragraph and its loose form is the trimmed
\* loose form of the proposal.
C5_LooseRepair ==
    ( /\ resRuns # <<>>
      /\ Len(resOld) > 0
      /\ ~Occurs(resPara, resOld)
      /\ MatchesLoosely(resPara, resOld) )
    => LET paraLoose == buildLooseTextWithSpans(resPara)
           target == LooseTarget(resOld)
           k == FirstOccurrence(paraLoose.text, target)
           r == resRuns[1]
       IN  /\ r.found
           /\ r.text = Slice(resPara, paraLoose.spans[k + 1].start,
                             paraLoose.spans[k + Len(target)].end)
           /\ Len(r.text) > 0
           /\ Occurs(resPara, r.text)
           /\ buildLooseTextWithSpans(r.text).text = target

\* The proposal "hello-world" has been repaired to the paragraph's own
\* "hello<mdash>world".
C5_Witness ==
    /\ resPara = HeSaidHelloWorld
    /\ resOld = HelloHyphenWorld
    /\ resRuns = <<Some(HelloDashWorld)>>

\* C6: normalizing the loose text of a string yields the same loose text; the
\* loose text holds no character the mapping changes, no whitespace other
\* than the space, and no two adjacent spaces.
C6_IdempotentNormalization ==
    Len(normRuns) = 2 =>
        LET t == normRuns[1].text IN
        /\ normRuns[2].text = t
        /\ \A k \in 1 .. Len(t) :
              /\ normalizeLooseChar(t[k]) = t[k]
              /\ IsWhitespace(t[k]) => t[k] = Space
              /\ (k > 1 /\ t[k] = Space) => t[k - 1] # Space

\* A string with a typographic character and a whitespace run has been
\* normalized twice.
C6_Witness ==
    /\ Len(normRuns) = 2
    /\ Len(normRuns[1].text) > 0
    /\ Len(normRuns[1].text) < Len(normText)
    /\ \E k \in 1 .. Len(normText) : normText[k] = EmDash
    /\ normRuns[2].text = normRuns[1].text

(***************************************************************************)
(* Properties of the validation loop                                       *)
(***************************************************************************)
\* This step is an iteration of the loop, on the change StepChange.
TookChange == Len(changes') = Len(changes) + 1
StepChange == changes'[Len(changes')]

\* This step appended an edit, StepEdit, to the accepted list.
Emitted == Len(validChanges') = Len(validChanges) + 1
StepEdit == validChanges'[Len(validChanges')]

\* The sent paragraphs in which text t occurs.
ParagraphsWith(t) == {q \in DOMAIN paragraphLookup : Occurs(paragraphLookup[q], t)}

\* The loop ran the resolver for change c on its stated paragraph, and the
\* resolver failed.
ResolverFailsOn(c) ==
    /\ c.wellFormed
    /\ c.paraIndex \in DOMAIN paragraphLookup
    /\ Len(paragraphLookup[c.paraIndex]) > 0
    /\ ~resolveOldTextFromParagraph(paragraphLookup[c.paraIndex], c.oldText,
                                    CommentsOfPara(comments, c.paraIndex)).found

\* The slice of para under the first loose occurrence of the proposal.
LooseRepairOf(para, old) ==
    LET paraLoose == buildLooseTextWithSpans(para)
        target == LooseTarget(old)
        k == FirstOccurrence(paraLoose.text, target)
    IN  Slice(para, paraLoose.spans[k + 1].start,
              paraLoose.spans[k + Len(target)].end)

\* The step dropped its change under reason why, and only counted it there.
DroppedAs(why) ==
    /\ validChanges' = validChanges
    /\ dropStats' = [dropStats EXCEPT ![why] = @ + 1]
    /\ droppedCount' = droppedCount + 1
    /\ UNCHANGED <<repairedCount, remappedCount, remapLog, response>>

\* C1: every edit of the accepted list (the list the response returns) has a
\* paraIndex among the paragraphs sent and an oldText that is a non-empty
\* literal substring of that paragraph's text.
C1_SubstringInvariant ==
    \A k \in 1 .. Len(validChanges) :
        /\ validChanges[k].paraIndex \in DOMAIN paragraphLookup
        /\ Len(validChanges[k].oldText) > 0
        /\ Occurs(paragraphLookup[validChanges[k].paraIndex], validChanges[k].oldText)

\* A response has been sent with two edits, a remapped one and a repaired
\* one among them.
C1_Witness ==
    /\ response = "sent"
    /\ Len(validChanges) = 2
    /\ remappedCount >= 1
    /\ repairedCount >= 1
    /\ \E k \in 1 .. 2 : validChanges[k].oldText # changes[k].oldText

\* The conclusion of C2: the change is emitted for paragraph q with its
\* oldText unchanged, the remap logged with reason unique-exact.
RemappedUniqueExact(c, q) ==
    /\ validChanges' = Append(validChanges,
                              [paraIndex |-> q, oldText |-> c.oldText,
                               newText |-> c.newText])
    /\ remapLog' = Append(remapLog, [from |-> c.paraIndex, to |-> q,
                                     reason |-> "unique-exact"])
    /\ remappedCount' = remappedCount + 1

\* C2 (amended): when the request does not carry exactly one comment, a
\* well-formed edit names a sent paragraph that does not contain its oldText
\* and on which the Anchor Resolver fails (the paragraph is not empty and
\* gives neither a loose match nor a single-comment anchor), and the oldText
\* occurs verbatim in exactly one sent paragraph, the edit is emitted with
\* that paragraph's index and its oldText unchanged, the remap tagged
\* unique-exact.
C2_UniqueRemap ==
    [][ ( /\ TookChange
          /\ Len(comments) # 1
          /\ ResolverFailsOn(StepChange)
          /\ ~Occurs(paragraphLookup[StepChange.paraIndex], StepChange.oldText)
          /\ Cardinality(ParagraphsWith(StepChange.oldText)) = 1 )
        => \E q \in ParagraphsWith(StepChange.oldText) :
               RemappedUniqueExact(StepChange, q) ]_vars

\* C2 as stated: for any comments list, when a well-formed edit names a sent
\* paragraph that does not contain its oldText and the oldText occurs
\* verbatim in exactly one sent paragraph, the edit is emitted for that
\* paragraph, oldText unchanged, tagged unique-exact.
C2_AsStated ==
    [][ ( /\ TookChange
          /\ StepChange.wellFormed
          /\ StepChange.paraIndex \in DOMAIN paragraphLookup
          /\ ~Occurs(paragraphLookup[StepChange.paraIndex], StepChange.oldText)
          /\ Cardinality(ParagraphsWith(StepChange.oldText)) = 1 )
        => \E q \in ParagraphsWith(StepChange.oldText) :
               RemappedUniqueExact(StepChange, q) ]_vars

\* With two comments in the request, an edit has been remapped to the one
\* paragraph holding its oldText.
C2_Witness ==
    /\ Len(comments) = 2
    /\ Len(remapLog) >= 1
    /\ remapLog[1].reason = "unique-exact"
    /\ remapLog[1].to # remapLog[1].from
    /\ Len(validChanges) >= 1
    /\ validChanges[1].paraIndex = remapLog[1].to
    /\ ParagraphsWith(validChanges[1].oldText) = {remapLog[1].to}

\* C3: when the request does not carry exactly one comment, the Anchor
\* Resolver fails on the edit's stated paragraph, and the proposed oldText
\* occurs literally in two or more sent paragraphs, the remapper returns
\* unresolved (neither search picks a paragraph) and the edit is dropped
\* under unresolvedOldText, emitted for no paragraph.
C3_AmbiguityRefusal ==
    [][ ( /\ TookChange
          /\ Len(comments) # 1
          /\ ResolverFailsOn(StepChange)
          /\ Cardinality(ParagraphsWith(StepChange.oldText)) >= 2 )
        => /\ remapUnresolvedChange(StepChange.oldText, paragraphLookup,
                                    validIndices, comments) = NoRemap
           /\ ~findUniqueParagraphByExactText(
                   paragraphLookup, validIndices, StepChange.oldText).found
           /\ ~findUniqueParagraphByLooseText(
                   paragraphLookup, validIndices, StepChange.oldText).found
           /\ DroppedAs("unresolvedOldText") ]_vars

\* An edit whose non-empty oldText two other paragraphs hold has been dropped
\* as unresolved, the request carrying no comment or two.
C3_Witness ==
    /\ Len(comments) # 1
    /\ Len(changes) = 1
    /\ dropStats.unresolvedOldText = 1
    /\ validChanges = <<>>
    /\ Len(changes[1].oldText) > 0
    /\ Cardinality(ParagraphsWith(changes[1].oldText)) >= 2
    /\ changes[1].paraIndex \notin ParagraphsWith(changes[1].oldText)

\* C7: a well-formed edit whose paraIndex is not among the indices sent is
\* never emitted and is counted under invalidIndex only; it reaches neither
\* the resolver nor the remapper (whose call would remap it, or throw on a
\* null comment), even when its oldText occurs in a sent paragraph.
C7_InvalidIndexRejection ==
    [][ ( /\ TookChange
          /\ StepChange.wellFormed
          /\ StepChange.paraIndex \notin DOMAIN paragraphLookup )
        => DroppedAs("invalidIndex") ]_vars

\* An edit for a paragraph that was not sent, its oldText present in a sent
\* paragraph, has been dropped; the request's only comment is a null record.
C7_Witness ==
    /\ comments = <<NullComment>>
    /\ response = "sent"
    /\ Len(changes) = 1
    /\ changes[1].wellFormed
    /\ changes[1].paraIndex \notin DOMAIN paragraphLookup
    /\ Len(changes[1].oldText) > 0
    /\ ParagraphsWith(changes[1].oldText) # {}
    /\ dropStats.invalidIndex = 1
    /\ validChanges = <<>>

\* C8 as stated: no iteration raises; each change ends either emitted or
\* dropped under exactly one of the four reasons, and the accepted list only
\* grows at its end, in the order the changes came.
C8_NoInputAbortsTheBatch ==
    [][ TookChange =>
          /\ response' # "error"
          /\ pos' = pos + 1
          /\ \/ /\ Emitted
                /\ SubSeq(validChanges', 1, Len(validChanges)) = validChanges
                /\ dropStats' = dropStats
                /\ droppedCount' = droppedCount
             \/ /\ validChanges' = validChanges
                /\ droppedCount' = droppedCount + 1
                /\ \E why \in DOMAIN dropStats :
                      dropStats' = [dropStats EXCEPT ![why] = @ + 1] ]_vars

\* C9: when a well-formed edit names a sent paragraph and its non-empty
\* oldText is a literal substring of that paragraph, the edit is emitted with
\* paraIndex, oldText and newText unchanged and is counted neither as
\* repaired nor as remapped, whatever the comments.
C9_ExactMatchPassthrough ==
    [][ ( /\ TookChange
          /\ StepChange.wellFormed
          /\ StepChange.paraIndex \in DOMAIN paragraphLookup
          /\ Len(StepChange.oldText) > 0
          /\ Occurs(paragraphLookup[StepChange.paraIndex], StepChange.oldText) )
        => /\ validChanges' =
                  Append(validChanges,
                         [paraIndex |-> StepChange.paraIndex,
                          oldText |-> StepChange.oldText,
                          newText |-> StepChange.newText])
           /\ UNCHANGED <<repairedCount, remappedCount, remapLog, droppedCount,
                          dropStats, response>> ]_vars

\* An edit has passed through unchanged although its paragraph's only
\* comment selects another part of the paragraph.
C9_Witness ==
    /\ Len(changes) = 1
    /\ changes[1].wellFormed
    /\ validChanges = <<[paraIndex |-> changes[1].paraIndex,
                         oldText |-> changes[1].oldText,
                         newText |-> changes[1].newText]>>
    /\ repairedCount = 0
    /\ remappedCount = 0
    /\ LET cs == CommentsOfPara(comments, changes[1].paraIndex)
           para == paragraphLookup[changes[1].paraIndex]
       IN  /\ OneCommentWithValidRange(para, cs)
           /\ Slice(para, cs[1].start, cs[1].end) # changes[1].oldText

\* The emitted oldText is the proposal verbatim or its loose-match slice.
VerbatimOrLooseSlice(c, e) ==
    \/ e.oldText = c.oldText
    \/ /\ MatchesLoosely(paragraphLookup[e.paraIndex], c.oldText)
       /\ e.oldText = LooseRepairOf(paragraphLookup[e.paraIndex], c.oldText)

\* The emitted oldText is the anchor of the only comment on the edit's
\* stated paragraph.
OverrideOfOwnParagraph(c, e) ==
    LET cs == CommentsOfPara(comments, c.paraIndex)
        para == paragraphLookup[c.paraIndex]
    IN  /\ Len(cs) = 1
        /\ e.paraIndex = c.paraIndex
        /\ IF OneCommentWithValidRange(para, cs)
           THEN e.oldText = Slice(para, cs[1].start, cs[1].end)
           ELSE cs[1].hasSelectedText /\ e.oldText = cs[1].selectedText

\* C10 (amended): when the request contains more than one comment, every
\* emitted edit's oldText is the proposed oldText verbatim or the loose-match
\* slice derived from it, unless the edit's stated paragraph carries exactly
\* one comment: the resolver then applies that comment's override (its range
\* slice, else its selectedText) and the edit stays on that paragraph.
C10_OverrideOnlyPerParagraph ==
    [][ (TookChange /\ Emitted /\ Len(comments) > 1)
        => \/ VerbatimOrLooseSlice(StepChange, StepEdit)
           \/ OverrideOfOwnParagraph(StepChange, StepEdit) ]_vars

\* C10 as stated: when the request contains more than one comment, every
\* emitted edit's oldText is the proposed oldText verbatim or the loose-match
\* slice derived from it.
C10_AsStated ==
    [][ (TookChange /\ Emitted /\ Len(comments) > 1)
        => VerbatimOrLooseSlice(StepChange, StepEdit) ]_vars

\* Two comments on one paragraph: an edit for it whose oldText only matches
\* loosely has been emitted with the loose slice, no override applied.
C10_Witness ==
    /\ Len(comments) = 2
    /\ Len(changes) = 1
    /\ Len(validChanges) = 1
    /\ changes[1].wellFormed
    /\ Len(CommentsOfPara(comments, changes[1].paraIndex)) = 2
    /\ validChanges[1].paraIndex = changes[1].paraIndex
    /\ validChanges[1].oldText # changes[1].oldText
    /\ validChanges[1].oldText =
           LooseRepairOf(paragraphLookup[changes[1].paraIndex], changes[1].oldText)

\* C11: over any batch, an emitted edit is counted as remapped exactly when
\* its final paraIndex differs from the proposed one and as repaired exactly
\* when its final oldText differs from the proposed one; an edit that is not
\* emitted moves neither counter.
C11_OutcomeTagging ==
    [][ TookChange =>
          IF Emitted
          THEN /\ remappedCount' - remappedCount =
                      (IF StepEdit.paraIndex # StepChange.paraIndex THEN 1 ELSE 0)
               /\ repairedCount' - repairedCount =
                      (IF StepEdit.oldText # StepChange.oldText THEN 1 ELSE 0)
          ELSE UNCHANGED <<remappedCount, repairedCount>> ]_vars

(***************************************************************************)
(* Span provenance of the normalizer                                       *)
(***************************************************************************)
\* The character of text at 0-based offset k maps to whitespace.
MapsToWhitespace(text, k) == IsWhitespace(normalizeLooseChar(text[k + 1]))

\* [start, end) is a maximal run of characters of text that map to
\* whitespace.
MaximalWhitespaceRun(text, start, end) ==
    /\ \A k \in start .. end - 1 : MapsToWhitespace(text, k)
    /\ start > 0 => ~MapsToWhitespace(text, start - 1)
    /\ end < Len(text) => ~MapsToWhitespace(text, end)

\* C12: the normalizer returns one span per loose character; each span is a
\* non-empty [start, end) range of the original; a loose character other
\* than the space has a one-character span whose original character maps to
\* it; a loose space has a span that is exactly one maximal run of
\* characters mapping to whitespace; the spans are in order, adjacent, and
\* cover the original from 0 to its length; the empty string gives the
\* empty text and no spans.
C12_SpanProvenance ==
    Len(normRuns) >= 1 =>
        LET t == normRuns[1].text
            sp == normRuns[1].spans
        IN
        /\ Len(sp) = Len(t)
        /\ \A k \in 1 .. Len(sp) :
              /\ 0 <= sp[k].start
              /\ sp[k].start < sp[k].end
              /\ sp[k].end <= Len(normText)
              /\ IF t[k] = Space
                 THEN MaximalWhitespaceRun(normText, sp[k].start, sp[k].end)
                 ELSE /\ sp[k].end = sp[k].start + 1
                      /\ normalizeLooseChar(normText[sp[k].start + 1]) = t[k]
              /\ k > 1 => sp[k].start = sp[k - 1].end
        /\ Len(sp) > 0 => (sp[1].start = 0 /\ sp[Len(sp)].end = Len(normText))
        /\ Len(normText) = 0 => (t = <<>> /\ sp = <<>>)
        /\ Len(normText) > 0 => Len(sp) > 0

\* A string has been normalized in which a run of two or more different
\* whitespace characters collapsed into one space with one span, next to a
\* typographic character the mapping replaced.
C12_Witness ==
    /\ Len(normRuns) >= 1
    /\ \E k \in 1 .. Len(normRuns[1].spans) :
          /\ normRuns[1].text[k] = Space
          /\ normRuns[1].spans[k].end >= normRuns[1].spans[k].start + 2
          /\ normText[normRuns[1].spans[k].start + 1] #
                 normText[normRuns[1].spans[k].start + 2]
    /\ \E k \in 1 .. Len(normRuns[1].spans) :
          /\ normRuns[1].text[k] # Space
          /\ normText[normRuns[1].spans[k].start + 1] # normRuns[1].text[k]

====
